---- MODULE Spec2Model ----
(***************************************************************************)
(* A model of the generic search engine of python-ai-search-toolkit:       *)
(* the fringe containers of src/src/utils.py (Stack, Queue, PriorityQueue  *)
(* over heapq), the Problem interface of src/src/problem.py and the four   *)
(* search loops of src/src/search.py.                                      *)
(*                                                                         *)
(* A run of one search function is a behaviour: Init is the state after    *)
(* the lines that seed the fringe, each step is one pass through the       *)
(* while loop (or the fall-through to "return None").                      *)
(***************************************************************************)
EXTENDS Integers, Sequences, FiniteSets, TLC

VARIABLES
    alg,        \* which of the four search functions is running
    problem,    \* the Problem object: [start, goals, succ]
    heuristic,  \* the heuristic passed to aStarSearch: state -> number
    fringe,     \* the fringe object (Stack, Queue or PriorityQueue)
    visited,    \* the local set `visited`
    pc,         \* "loop" while the while loop runs, "returned" after return
    result,     \* the returned value: [none |-> BOOLEAN, path |-> Seq(Action)]
    popped,     \* history: the items popped so far, in order
    tested,     \* history: the states that were goal-tested, in order
    expanded,   \* history: the states getSuccessors was called on, in order
    held,       \* history (container runs): pushed and not yet popped, in push order
    ret         \* container runs: what the last pop returned

vars == <<alg, problem, heuristic, fringe, visited, pc, result,
          popped, tested, expanded, held, ret>>

\* ------------------------------------------------------------------ bounds
NumStates == 3   \* states of a problem are 1..NumStates
MaxEdges  == 3   \* total number of (successor, action, stepCost) triples
MaxCost   == 1   \* step costs are 0..MaxCost
MaxH      == 1   \* heuristic values are 0..MaxH
MaxPushes == 5   \* pushes in a run of a container on its own
MaxPrio   == 2   \* priorities pushed in such a run are 0..MaxPrio
MaxItem   == 2   \* items pushed or updated in a run with update are 1..MaxItem
MaxEntries == 4  \* entries pushed in a run with update
MaxStackPushes == 7    \* pushes in a run of a Stack on its own
MaxQueuePushes == 14   \* pushes in a run of a Queue on its own

States == 1 .. NumStates
Costs  == 0 .. MaxCost

\* ------------------------------------------------- utils.py: Stack, Queue
Stack_init == [list |-> <<>>]
Stack_push(s, item) == [list |-> Append(s.list, item)]
\* mutant: the emptiness test never answers true
Stack_isEmpty_never(s) == Len(s.list) < 0
Stack_isEmpty(s) == Len(s.list) = 0
\* mutant: the first element is returned, as by list.pop(0)
Stack_popItem_first(s) == s.list[1]
\* list.pop(): the last element is returned and removed
Stack_popItem(s) == s.list[Len(s.list)]
Stack_popRest(s) == [list |-> SubSeq(s.list, 1, Len(s.list) - 1)]
\* list.pop() on an empty list raises IndexError
Stack_popRaises(s) == Len(s.list) = 0

Queue_init == [queue |-> <<>>]
\* mutant: the emptiness test never answers true
Queue_isEmpty_never(q) == Len(q.queue) < 0
\* mutant: appendleft instead of append
Queue_push_left(q, item) == [queue |-> <<item>> \o q.queue]
Queue_push(q, item) == [queue |-> Append(q.queue, item)]
Queue_isEmpty(q) == Len(q.queue) = 0
\* mutant: the last element is removed, as by deque.pop()
Queue_popRest_right(q) == [queue |-> SubSeq(q.queue, 1, Len(q.queue) - 1)]
\* deque.popleft(): the first element is returned and removed
Queue_popItem(q) == q.queue[1]
Queue_popRest(q) == [queue |-> Tail(q.queue)]
\* deque.popleft() on an empty deque raises IndexError
Queue_popRaises(q) == Len(q.queue) = 0

\* ----------------------------------------------------- heapq (0-based pos)
\* Python's tuple order on entries (priority, count, item). The counts of two
\* entries of one queue differ, so the comparison never reaches the item.
EntryLess(a, b) == a[1] < b[1] \/ (a[1] = b[1] /\ a[2] < b[2])

RECURSIVE siftdownLoop(_, _, _, _)
siftdownLoop(h, startpos, pos, newitem) ==
    IF pos > startpos
    THEN LET parentpos == (pos - 1) \div 2
             parent    == h[parentpos + 1]
         IN  IF EntryLess(newitem, parent)
             THEN siftdownLoop([h EXCEPT ![pos + 1] = parent], startpos, parentpos, newitem)
             ELSE [h EXCEPT ![pos + 1] = newitem]
    ELSE [h EXCEPT ![pos + 1] = newitem]

\* heapq._siftdown(heap, startpos, pos)
heapq_siftdown(h, startpos, pos) == siftdownLoop(h, startpos, pos, h[pos + 1])

\* the while loop of heapq._siftup: the smaller child is moved up until a leaf
RECURSIVE siftupLoop(_, _, _, _)
siftupLoop(h, pos, childpos, endpos) ==
    IF childpos < endpos
    THEN LET rightpos == childpos + 1
             c == IF rightpos < endpos /\ ~EntryLess(h[childpos + 1], h[rightpos + 1])
                  THEN rightpos ELSE childpos
         IN  siftupLoop([h EXCEPT ![pos + 1] = h[c + 1]], c, 2 * c + 1, endpos)
    ELSE <<h, pos>>

\* heapq._siftup(heap, pos)
heapq_siftup(h, pos) ==
    LET newitem == h[pos + 1]
        r       == siftupLoop(h, pos, 2 * pos + 1, Len(h))
    IN  heapq_siftdown([r[1] EXCEPT ![r[2] + 1] = newitem], pos, r[2])

\* heapq.heappush(heap, item)
heapq_heappush(h, entry) == heapq_siftdown(Append(h, entry), 0, Len(h))

\* heapq.heappop(heap): the returned entry, and the heap left behind
heapq_heappopItem(h) == IF Len(h) > 1 THEN h[1] ELSE h[Len(h)]
\* mutant: the last entry is moved to the root and not sifted
heapq_heappopRest_noSift(h) ==
    LET rest == SubSeq(h, 1, Len(h) - 1)
    IN  IF Len(rest) > 0 THEN [rest EXCEPT ![1] = h[Len(h)]] ELSE rest
heapq_heappopRest(h) ==
    LET lastelt == h[Len(h)]
        rest    == SubSeq(h, 1, Len(h) - 1)
    IN  IF Len(rest) > 0 THEN heapq_siftup([rest EXCEPT ![1] = lastelt], 0) ELSE rest

\* heapq.heapify(x): _siftup at the positions len(x) // 2 - 1 down to 0
RECURSIVE heapifyLoop(_, _)
heapifyLoop(x, i) == IF i < 0 THEN x ELSE heapifyLoop(heapq_siftup(x, i), i - 1)
heapq_heapify(x) == heapifyLoop(x, (Len(x) \div 2) - 1)

\* ------------------------------------------------ utils.py: PriorityQueue
PriorityQueue_init == [heap |-> <<>>, count |-> 0]
\* mutant: the count is not incremented, all entries carry the same count
PriorityQueue_push_sameCount(q, item, priority) ==
    [heap  |-> heapq_heappush(q.heap, <<priority, q.count, item>>),
     count |-> q.count]
\* mutant: the priority is negated, the highest priority is popped first
PriorityQueue_push_negated(q, item, priority) ==
    [heap  |-> heapq_heappush(q.heap, <<0 - priority, q.count, item>>),
     count |-> q.count + 1]
PriorityQueue_push(q, item, priority) ==
    [heap  |-> heapq_heappush(q.heap, <<priority, q.count, item>>),
     count |-> q.count + 1]
PriorityQueue_isEmpty(q) == Len(q.heap) = 0
PriorityQueue_popItem(q) == heapq_heappopItem(q.heap)[3]
PriorityQueue_popRest(q) == [heap |-> heapq_heappopRest(q.heap), count |-> q.count]
\* heapq.heappop on an empty list raises IndexError
PriorityQueue_popRaises(q) == Len(q.heap) = 0

\* mutant: the entry is replaced in the list and the list is not heapified
PriorityQueue_update_noHeapify(q, item, priority) ==
    IF \E k \in DOMAIN q.heap : q.heap[k][3] = item
    THEN LET index == CHOOSE k \in DOMAIN q.heap :
                          /\ q.heap[k][3] = item
                          /\ \A j \in 1 .. k - 1 : q.heap[j][3] # item
         IN  IF q.heap[index][1] > priority
             THEN [heap  |-> [q.heap EXCEPT ![index] = <<priority, q.heap[index][2], item>>],
                   count |-> q.count]
             ELSE q
    ELSE PriorityQueue_push(q, item, priority)

\* PriorityQueue.update: the for loop stops at the first entry of the list whose
\* item equals `item`; without a match the item is pushed
PriorityQueue_update(q, item, priority) ==
    IF \E k \in DOMAIN q.heap : q.heap[k][3] = item
    THEN LET index == CHOOSE k \in DOMAIN q.heap :
                          /\ q.heap[k][3] = item
                          /\ \A j \in 1 .. k - 1 : q.heap[j][3] # item
             p     == q.heap[index][1]
             c     == q.heap[index][2]
         IN  IF p > priority
             THEN [heap  |-> heapq_heapify([q.heap EXCEPT ![index] = <<priority, c, item>>]),
                   count |-> q.count]
             ELSE q
    ELSE PriorityQueue_push(q, item, priority)

\* --------------------------------------------------- problem.py: Problem
getStartState(p)     == p.start
isGoalState(p, s)    == s \in p.goals
\* the ordered list of (successor, action, stepCost) triples of state s
getSuccessors(p, s)  == p.succ[s]

\* search.py: nullHeuristic
nullHeuristic == [s \in States |-> 0]

\* The problems a run is started on. A successor list of length k: every choice
\* of k (successor, stepCost) pairs, the action of a triple being a label that
\* is unique among the triples of its state (its position in the list).
SuccLists(k) ==
    { [i \in 1 .. k |-> <<f[i][1], i, f[i][2]>>] : f \in [1 .. k -> States \X Costs] }

\* every assignment of successor lists to the states 1..n with at most
\* `budget` triples in all
RECURSIVE Graphs(_, _)
Graphs(n, budget) ==
    IF n = 0 THEN { <<>> }
    ELSE UNION { { Append(g, l) : g \in Graphs(n - 1, budget - k), l \in SuccLists(k) }
                 : k \in 0 .. budget }

\* the states a graph reaches from the states R in at most n steps
RECURSIVE Closure(_, _, _)
Closure(g, R, n) ==
    IF n = 0 THEN R
    ELSE Closure(g, R \cup UNION { { g[s][i][1] : i \in DOMAIN g[s] } : s \in R }, n - 1)

\* A search never sees the successor list of a state it cannot reach, so the
\* problems are those whose unreachable states have no successors: every other
\* problem runs exactly as one of these.
Problems(n, budget) ==
    { [start |-> 1, goals |-> gs, succ |-> g] :
        gs \in SUBSET (1 .. n),
        g \in { x \in Graphs(n, budget) :
                  \A s \in (1 .. n) \ Closure(x, {1}, n) : x[s] = <<>> } }

Heuristics == [States -> 0 .. MaxH]

Algs == {"dfs", "bfs", "ucs", "astar"}

None      == [none |-> TRUE,  path |-> <<>>]
Found(p)  == [none |-> FALSE, path |-> p]

\* ------------------------------------------------ search.py: the for loops
\* mutant: the for loop is left after the first successor
dfsPushSuccessors_firstOnly(fr, succs, path, vis) ==
    IF succs = <<>> THEN fr
    ELSE IF succs[1][1] \notin vis
         THEN Stack_push(fr, <<succs[1][1], Append(path, succs[1][2])>>)
         ELSE fr

\* mutant: every successor is pushed, visited or not
RECURSIVE dfsPushSuccessors_noVisitedCheck(_, _, _, _)
dfsPushSuccessors_noVisitedCheck(fr, succs, path, vis) ==
    IF succs = <<>> THEN fr
    ELSE dfsPushSuccessors_noVisitedCheck(
             Stack_push(fr, <<succs[1][1], Append(path, succs[1][2])>>),
             Tail(succs), path, vis)

\* depthFirstSearch, lines 33-36
RECURSIVE dfsPushSuccessors(_, _, _, _)
dfsPushSuccessors(fr, succs, path, vis) ==
    IF succs = <<>> THEN fr
    ELSE LET t == Head(succs)
             successor == t[1]
             action    == t[2]
         IN  dfsPushSuccessors(
                 IF successor \notin vis
                 THEN Stack_push(fr, <<successor, Append(path, action)>>)
                 ELSE fr,
                 Tail(succs), path, vis)

\* mutant: the old path is pushed, not the path extended by the action
RECURSIVE bfsPushSuccessors_oldPath(_, _, _, _)
bfsPushSuccessors_oldPath(fr, succs, path, vis) ==
    IF succs = <<>> THEN fr
    ELSE bfsPushSuccessors_oldPath(
             IF succs[1][1] \notin vis THEN Queue_push(fr, <<succs[1][1], path>>) ELSE fr,
             Tail(succs), path, vis)

\* breadthFirstSearch, lines 59-76
RECURSIVE bfsPushSuccessors(_, _, _, _)
bfsPushSuccessors(fr, succs, path, vis) ==
    IF succs = <<>> THEN fr
    ELSE LET t == Head(succs)
             successor == t[1]
             action    == t[2]
         IN  bfsPushSuccessors(
                 IF successor \notin vis
                 THEN Queue_push(fr, <<successor, Append(path, action)>>)
                 ELSE fr,
                 Tail(succs), path, vis)

\* mutant: the cost of a node is the cost of its last step, not the accumulated cost
RECURSIVE ucsPushSuccessors_stepCost(_, _, _, _, _)
ucsPushSuccessors_stepCost(fr, succs, path, cost, vis) ==
    IF succs = <<>> THEN fr
    ELSE ucsPushSuccessors_stepCost(
             IF succs[1][1] \notin vis
             THEN PriorityQueue_push(fr, <<succs[1][1], Append(path, succs[1][2]),
                                           succs[1][3]>>, succs[1][3])
             ELSE fr,
             Tail(succs), path, cost, vis)

\* uniformCostSearch, lines 99-103
RECURSIVE ucsPushSuccessors(_, _, _, _, _)
ucsPushSuccessors(fr, succs, path, cost, vis) ==
    IF succs = <<>> THEN fr
    ELSE LET t == Head(succs)
             successor == t[1]
             action    == t[2]
             stepCost  == t[3]
             new_cost  == cost + stepCost
         IN  ucsPushSuccessors(
                 IF successor \notin vis
                 THEN PriorityQueue_push(fr, <<successor, Append(path, action), new_cost>>,
                                         new_cost)
                 ELSE fr,
                 Tail(succs), path, cost, vis)

\* mutant: the priority is the heuristic alone (greedy best-first)
RECURSIVE aStarPushSuccessors_greedy(_, _, _, _, _, _)
aStarPushSuccessors_greedy(fr, succs, path, g_cost, vis, h) ==
    IF succs = <<>> THEN fr
    ELSE aStarPushSuccessors_greedy(
             IF succs[1][1] \notin vis
             THEN PriorityQueue_push(fr, <<succs[1][1], Append(path, succs[1][2]),
                                           g_cost + succs[1][3]>>, h[succs[1][1]])
             ELSE fr,
             Tail(succs), path, g_cost, vis, h)

\* aStarSearch, lines 136-142
RECURSIVE aStarPushSuccessors(_, _, _, _, _, _)
aStarPushSuccessors(fr, succs, path, g_cost, vis, h) ==
    IF succs = <<>> THEN fr
    ELSE LET t == Head(succs)
             successor  == t[1]
             action     == t[2]
             stepCost   == t[3]
             new_g_cost == g_cost + stepCost
             h_cost     == h[successor]
             f_cost     == new_g_cost + h_cost
         IN  aStarPushSuccessors(
                 IF successor \notin vis
                 THEN PriorityQueue_push(fr, <<successor, Append(path, action), new_g_cost>>,
                                         f_cost)
                 ELSE fr,
                 Tail(succs), path, g_cost, vis, h)

\* ------------------------------------------- search.py: seeding the fringe
\* the fringe after the lines before the while loop
SeededFringe(a, p, h) ==
    CASE a = "dfs"   -> Stack_push(Stack_init, <<getStartState(p), <<>>>>)
      [] a = "bfs"   -> Queue_push(Queue_init, <<getStartState(p), <<>>>>)
      [] a = "ucs"   -> PriorityQueue_push(PriorityQueue_init,
                                           <<getStartState(p), <<>>, 0>>, 0)
      [] a = "astar" -> PriorityQueue_push(PriorityQueue_init,
                                           <<getStartState(p), <<>>, 0>>,
                                           0 + h[getStartState(p)])

\* the state of a search call on a problem of at most `budget` triples, before
\* its while loop
InitOn(budget) ==
    /\ alg \in Algs
    /\ problem \in Problems(NumStates, budget)
    /\ heuristic \in (IF alg = "astar" THEN Heuristics ELSE {nullHeuristic})
    /\ fringe = SeededFringe(alg, problem, heuristic)
    /\ visited = {}
    /\ pc = "loop"
    /\ result = None
    /\ popped = <<>>
    /\ tested = <<>>
    /\ expanded = <<>>
    /\ held = <<>>
    /\ ret = 0

Init == InitOn(MaxEdges)

\* mutant: no test of the visited set after the pop
LoopBody_noVisitedTest(item, rest, pushed) ==
    LET state == item[1]
        path  == item[2]
    IN  /\ popped' = Append(popped, item)
        /\ visited' = visited \cup {state}
        /\ tested' = Append(tested, state)
        /\ IF isGoalState(problem, state)
           THEN /\ pc' = "returned"
                /\ result' = Found(path)
                /\ fringe' = rest
                /\ UNCHANGED expanded
           ELSE /\ expanded' = Append(expanded, state)
                /\ fringe' = pushed
                /\ UNCHANGED <<pc, result>>
        /\ UNCHANGED <<alg, problem, heuristic, held, ret>>

\* mutant: the successors are generated and pushed before the goal test
LoopBody_expandFirst(item, rest, pushed) ==
    LET state == item[1]
        path  == item[2]
    IN  /\ popped' = Append(popped, item)
        /\ IF state \in visited
           THEN /\ fringe' = rest
                /\ UNCHANGED <<visited, pc, result, tested, expanded>>
           ELSE /\ visited' = visited \cup {state}
                /\ tested' = Append(tested, state)
                /\ expanded' = Append(expanded, state)
                /\ fringe' = pushed
                /\ IF isGoalState(problem, state)
                   THEN pc' = "returned" /\ result' = Found(path)
                   ELSE UNCHANGED <<pc, result>>
        /\ UNCHANGED <<alg, problem, heuristic, held, ret>>

\* ------------------------------------------ search.py: one loop iteration
\* What one pass of the shared loop body does with the popped item, given the
\* fringe left by the pop and the fringe the for loop would build.
LoopBody(item, rest, pushed) ==
    LET state == item[1]
        path  == item[2]
    IN  /\ popped' = Append(popped, item)
        /\ IF state \in visited
           THEN \* continue
                /\ fringe' = rest
                /\ UNCHANGED <<visited, pc, result, tested, expanded>>
           ELSE /\ visited' = visited \cup {state}
                /\ tested' = Append(tested, state)
                /\ IF isGoalState(problem, state)
                   THEN \* return path
                        /\ pc' = "returned"
                        /\ result' = Found(path)
                        /\ fringe' = rest
                        /\ UNCHANGED expanded
                   ELSE /\ expanded' = Append(expanded, state)
                        /\ fringe' = pushed
                        /\ UNCHANGED <<pc, result>>
        /\ UNCHANGED <<alg, problem, heuristic, held, ret>>

\* the fall-through after the while loop: return None
ReturnNone ==
    /\ pc' = "returned"
    /\ result' = None
    /\ UNCHANGED <<alg, problem, heuristic, fringe, visited, popped, tested, expanded,
                   held, ret>>

\* an exception raised by pop leaves the search function without a return value
Raise ==
    /\ pc' = "raised"
    /\ UNCHANGED <<alg, problem, heuristic, fringe, visited, result, popped, tested,
                   expanded, held, ret>>

depthFirstSearch ==
    /\ alg = "dfs" /\ pc = "loop"
    /\ IF ~Stack_isEmpty(fringe)
       THEN IF Stack_popRaises(fringe) THEN Raise ELSE
            LET item == Stack_popItem(fringe)
                rest == Stack_popRest(fringe)
            IN  LoopBody(item, rest,
                    dfsPushSuccessors(rest, getSuccessors(problem, item[1]), item[2],
                                      visited \cup {item[1]}))
       ELSE ReturnNone

breadthFirstSearch ==
    /\ alg = "bfs" /\ pc = "loop"
    /\ IF ~Queue_isEmpty(fringe)
       THEN IF Queue_popRaises(fringe) THEN Raise ELSE
            LET item == Queue_popItem(fringe)
                rest == Queue_popRest(fringe)
            IN  LoopBody(item, rest,
                    bfsPushSuccessors(rest, getSuccessors(problem, item[1]), item[2],
                                      visited \cup {item[1]}))
       ELSE ReturnNone

uniformCostSearch ==
    /\ alg = "ucs" /\ pc = "loop"
    /\ IF ~PriorityQueue_isEmpty(fringe)
       THEN IF PriorityQueue_popRaises(fringe) THEN Raise ELSE
            LET item == PriorityQueue_popItem(fringe)
                rest == PriorityQueue_popRest(fringe)
            IN  LoopBody(item, rest,
                    ucsPushSuccessors(rest, getSuccessors(problem, item[1]), item[2],
                                      item[3], visited \cup {item[1]}))
       ELSE ReturnNone

aStarSearch ==
    /\ alg = "astar" /\ pc = "loop"
    /\ IF ~PriorityQueue_isEmpty(fringe)
       THEN IF PriorityQueue_popRaises(fringe) THEN Raise ELSE
            LET item == PriorityQueue_popItem(fringe)
                rest == PriorityQueue_popRest(fringe)
            IN  LoopBody(item, rest,
                    aStarPushSuccessors(rest, getSuccessors(problem, item[1]), item[2],
                                        item[3], visited \cup {item[1]}, heuristic))
       ELSE ReturnNone

Next == depthFirstSearch \/ breadthFirstSearch \/ uniformCostSearch \/ aStarSearch

Spec == Init /\ [][Next]_vars

\* A called search function keeps running: python executes the next statement.
\* Liveness is checked on the problems with one triple fewer than under Spec: every
\* state costs far more in a liveness check than in a safety check.
FairInit == InitOn(MaxEdges - 1)
FairSpec == FairInit /\ [][Next]_vars /\ WF_vars(Next)

\* ------------------------------------------- paths, costs and reachability
\* Replaying a sequence of actions from state s: at each step the action must
\* be the action of one of the triples getSuccessors returns for the state
\* reached so far. The result is the set of <<state reached, summed stepCost>>.
RECURSIVE ReplayFrom(_, _, _)
ReplayFrom(p, S, path) ==
    IF path = <<>> THEN S
    ELSE ReplayFrom(p,
            UNION { { <<getSuccessors(p, o[1])[i][1], o[2] + getSuccessors(p, o[1])[i][3]>> :
                        i \in { j \in DOMAIN getSuccessors(p, o[1]) :
                                    getSuccessors(p, o[1])[j][2] = Head(path) } }
                    : o \in S },
            Tail(path))

Replay(p, path) == ReplayFrom(p, { <<getStartState(p), 0>> }, path)

\* the total costs with which `path` leads from the start state to a goal
GoalCostsOf(p, path) == { o[2] : o \in { r \in Replay(p, path) : isGoalState(p, r[1]) } }

\* every <<state, cost, number of actions>> of a walk from src of at most n
\* steps through getSuccessors
RECURSIVE Walks(_, _, _)
Walks(p, S, n) ==
    IF n = 0 THEN S
    ELSE Walks(p,
            S \cup UNION { { <<getSuccessors(p, w[1])[i][1],
                               w[2] + getSuccessors(p, w[1])[i][3],
                               w[3] + 1>> : i \in DOMAIN getSuccessors(p, w[1]) }
                           : w \in S },
            n - 1)

\* With non-negative step costs a cheapest (and a shortest) path to a state
\* visits no state twice, so the walks of at most NumStates steps reach every
\* reachable state at its minimum cost and at its minimum number of actions.
AllWalks(p, src) == Walks(p, { <<src, 0, 0>> }, NumStates)

MinOf(S) == CHOOSE m \in S : \A x \in S : m <= x

GoalWalks(p, src)     == { w \in AllWalks(p, src) : isGoalState(p, w[1]) }
GoalReachable(p)      == GoalWalks(p, getStartState(p)) # {}
\* minimum total cost over all paths from src to any goal
MinGoalCost(p, src)   == MinOf({ w[2] : w \in GoalWalks(p, src) })
\* minimum number of actions over all paths from src to any goal
MinGoalActions(p, src) == MinOf({ w[3] : w \in GoalWalks(p, src) })

Returned == pc = "returned"

\* h(u) <= stepCost(u, v) + h(v) on every triple of every state
Consistent(p, h) ==
    \A u \in States : \A i \in DOMAIN getSuccessors(p, u) :
        h[u] <= getSuccessors(p, u)[i][3] + h[getSuccessors(p, u)[i][1]]

\* h never exceeds the true remaining cost to a goal
Admissible(p, h) ==
    \A u \in States : GoalWalks(p, u) # {} => h[u] <= MinGoalCost(p, u)

\* C1 (path validity): whenever one of the four searches returns a path, replaying
\* its actions from the start state, each through a triple getSuccessors returns
\* for the state reached so far, ends in a state that satisfies isGoalState.
PathValidity ==
    (Returned /\ ~result.none) =>
        \E o \in Replay(problem, result.path) : isGoalState(problem, o[1])

\* a path of two actions was returned
PathValidityWitness ==
    /\ Returned /\ ~result.none /\ Len(result.path) = 2
    /\ \E o \in Replay(problem, result.path) : isGoalState(problem, o[1])

\* C2 (termination): on every problem with finitely many reachable states, cycles
\* or not, and for aStarSearch with any non-negative heuristic, each of the four
\* searches eventually returns (a path or None).
Terminates == <>Returned

\* aStarSearch has returned on a problem with a cycle through the start state,
\* run with a heuristic that is neither consistent nor admissible
TerminatesWitness ==
    /\ Returned /\ alg = "astar"
    /\ \E w \in AllWalks(problem, getStartState(problem)) :
          w[1] = getStartState(problem) /\ w[3] > 0
    /\ ~Consistent(problem, heuristic) /\ ~Admissible(problem, heuristic)
    /\ Len(popped) >= 2

\* C3 (cost optimality of UCS): when a goal is reachable, uniformCostSearch returns
\* a path whose summed step costs equal the minimum total cost over all paths
\* from the start state to any goal state.
UcsOptimal ==
    (alg = "ucs" /\ Returned /\ GoalReachable(problem)) =>
        /\ ~result.none
        /\ GoalCostsOf(problem, result.path)
              = { MinGoalCost(problem, getStartState(problem)) }

\* UCS returned a cheapest path of two actions although one action reaches a goal
UcsOptimalWitness ==
    /\ alg = "ucs" /\ Returned /\ ~result.none
    /\ Len(result.path) = 2
    /\ MinGoalActions(problem, getStartState(problem)) = 1
    /\ GoalCostsOf(problem, result.path) = { MinGoalCost(problem, getStartState(problem)) }

\* C4 (cost optimality of A*): with an admissible and consistent heuristic, when a
\* goal is reachable, aStarSearch returns a path whose total cost is the minimum
\* over all start-to-goal paths.
AStarOptimal ==
    (alg = "astar" /\ Returned /\ GoalReachable(problem)
       /\ Consistent(problem, heuristic) /\ Admissible(problem, heuristic)) =>
        /\ ~result.none
        /\ GoalCostsOf(problem, result.path)
              = { MinGoalCost(problem, getStartState(problem)) }

\* A* returned a cheapest path of two actions under a consistent, admissible
\* heuristic that is not the null heuristic, after discarding a popped item whose
\* state was already visited (the state was not re-opened)
AStarOptimalWitness ==
    /\ alg = "astar" /\ Returned /\ ~result.none
    /\ Consistent(problem, heuristic) /\ Admissible(problem, heuristic)
    /\ heuristic # nullHeuristic
    /\ Len(result.path) = 2
    /\ Len(popped) > Len(tested)
    /\ GoalCostsOf(problem, result.path) = { MinGoalCost(problem, getStartState(problem)) }

UnitCosts(p) ==
    \A u \in States : \A i \in DOMAIN getSuccessors(p, u) : getSuccessors(p, u)[i][3] = 1

\* C5 (breadth-first minimality): when every step cost is 1 and a goal is
\* reachable, breadthFirstSearch returns a path with the fewest actions among all
\* action sequences leading from the start state to a goal.
BfsFewestActions ==
    (alg = "bfs" /\ Returned /\ UnitCosts(problem) /\ GoalReachable(problem)) =>
        /\ ~result.none
        /\ Len(result.path) = MinGoalActions(problem, getStartState(problem))

\* BFS returned a one-action path where a two-action path to a goal was pushed first
BfsFewestActionsWitness ==
    /\ alg = "bfs" /\ Returned /\ UnitCosts(problem) /\ ~result.none
    /\ Len(result.path) = 1
    /\ \E w \in GoalWalks(problem, getStartState(problem)) : w[3] = 2
    /\ Len(popped) >= 3

\* C6 (no-solution sentinel): a search returns None exactly when no goal state is
\* reachable from the start state, and it does so with the fringe exhausted.
NoneIffUnreachable ==
    Returned =>
        /\ result.none <=> ~GoalReachable(problem)
        /\ result.none => CASE alg = "dfs" -> Stack_isEmpty(fringe)
                            [] alg = "bfs" -> Queue_isEmpty(fringe)
                            [] OTHER       -> PriorityQueue_isEmpty(fringe)

\* None was returned, with a goal state that exists but cannot be reached, after
\* every other state was expanded
NoneIffUnreachableWitness ==
    /\ Returned /\ result.none /\ problem.goals # {}
    /\ Len(expanded) = NumStates - 1

\* C7 (start is goal): when the start state is a goal state, the search returns the
\* empty action sequence, not None, at its first pop and without a call of
\* getSuccessors.
StartIsGoal ==
    isGoalState(problem, getStartState(problem)) =>
        /\ Len(popped) <= 1
        /\ popped # <<>> => Returned
        /\ Returned => (result = Found(<<>>) /\ expanded = <<>>)

StartIsGoalWitness ==
    /\ isGoalState(problem, getStartState(problem))
    /\ getSuccessors(problem, getStartState(problem)) # <<>>
    /\ Returned /\ result = Found(<<>>)

NoDuplicates(seq) == \A i, j \in DOMAIN seq : seq[i] = seq[j] => i = j

\* C8 (visited set): in every step of a search the visited set only grows, no state
\* is goal-tested or expanded twice, and a popped item whose state is already
\* visited is discarded: nothing is visited, tested, expanded, pushed or returned
\* for it, whatever the cost of its path.
VisitedOnce ==
    [][ /\ visited \subseteq visited'
        /\ NoDuplicates(tested') /\ NoDuplicates(expanded')
        /\ (Len(popped') > Len(popped) /\ popped'[Len(popped')][1] \in visited) =>
              /\ visited' = visited /\ tested' = tested /\ expanded' = expanded
              /\ pc' = pc /\ result' = result
              /\ CASE alg = "dfs" -> fringe' = Stack_popRest(fringe)
                   [] alg = "bfs" -> fringe' = Queue_popRest(fringe)
                   [] OTHER       -> fringe' = PriorityQueue_popRest(fringe)
      ]_vars

\* the cost with which the path of popped item i leads to its state
CostOfPopped(i) == MinOf({ o[2] : o \in { r \in Replay(problem, popped[i][2]) :
                                              r[1] = popped[i][1] } })

\* an item was popped and discarded although its path is cheaper than the path
\* by which its state was first expanded
VisitedOnceWitness ==
    \E i, j \in DOMAIN popped :
        /\ i < j /\ popped[i][1] = popped[j][1]
        /\ CostOfPopped(j) < CostOfPopped(i)
        /\ Len(tested) = Len(popped) - 1

\* ------------------------------------- search.py: a whole run as a function
\* The while loop of uniformCostSearch run to its end on the fringe fr and the
\* visited set vis: the items it pops, in order, and the value it returns.
RECURSIVE ucsLoop(_, _, _, _)
ucsLoop(p, fr, vis, pops) ==
    IF PriorityQueue_isEmpty(fr) THEN [popped |-> pops, result |-> None]
    ELSE LET item  == PriorityQueue_popItem(fr)
             rest  == PriorityQueue_popRest(fr)
             state == item[1]
             path  == item[2]
             cost  == item[3]
         IN  IF state \in vis
             THEN ucsLoop(p, rest, vis, Append(pops, item))
             ELSE IF isGoalState(p, state)
                  THEN [popped |-> Append(pops, item), result |-> Found(path)]
                  ELSE ucsLoop(p,
                               ucsPushSuccessors(rest, getSuccessors(p, state), path, cost,
                                                 vis \cup {state}),
                               vis \cup {state}, Append(pops, item))

\* uniformCostSearch(problem), from its first line to its return
uniformCostSearchRun(p) == ucsLoop(p, SeededFringe("ucs", p, nullHeuristic), {}, <<>>)

IsPrefix(s, t) == Len(s) <= Len(t) /\ s = SubSeq(t, 1, Len(s))

\* C11 (A* with the null heuristic is UCS): on every problem a run of aStarSearch
\* with nullHeuristic and a run of uniformCostSearch pop the same sequence of
\* nodes (state, path, cost) and return the same result: at every point of either
\* run the nodes popped so far are a prefix of the one sequence uniformCostSearch
\* pops on the problem, and when the run has returned they are that whole
\* sequence and the result is the result of uniformCostSearch.
AStarNullIsUcs ==
    (alg = "ucs" \/ (alg = "astar" /\ heuristic = nullHeuristic)) =>
        LET r == uniformCostSearchRun(problem)
        IN  /\ IsPrefix(popped, r.popped)
            /\ Returned => (popped = r.popped /\ result = r.result)

\* aStarSearch with the null heuristic has returned a path of two actions after
\* four pops, one of them discarded, on a problem whose start state has successors
\* of different step costs
AStarNullIsUcsWitness ==
    /\ alg = "astar" /\ heuristic = nullHeuristic
    /\ Returned /\ ~result.none /\ Len(result.path) = 2
    /\ Len(popped) >= 4 /\ Len(popped) > Len(tested)
    /\ \E i, j \in DOMAIN getSuccessors(problem, getStartState(problem)) :
          getSuccessors(problem, getStartState(problem))[i][3]
             < getSuccessors(problem, getStartState(problem))[j][3]
    /\ result = uniformCostSearchRun(problem).result

\* ------------------------------------------------ progress of the loop
\* the number of nodes a fringe holds
FringeLen(fr) ==
    IF "list" \in DOMAIN fr THEN Len(fr.list)
    ELSE IF "queue" \in DOMAIN fr THEN Len(fr.queue)
    ELSE Len(fr.heap)

\* a step that is one pass through the loop body of a search function
LoopPass == alg \in Algs /\ Len(popped') > Len(popped)

\* C15 as stated (every pass visits or returns): every pass through the loop body
\* either adds a previously unvisited state to the visited set or returns a path.
EveryPassVisitsOrReturns ==
    [][ LoopPass =>
          \/ (visited \subseteq visited' /\ visited' # visited)
          \/ (pc' = "returned" /\ ~result'.none)
      ]_vars

\* C15 (amended: every pass visits, returns or discards): every pass through the
\* loop body either adds a previously unvisited state to the visited set, or
\* returns a path, or pops a node whose state is already visited and discards
\* it, which leaves the visited set as it was and the fringe one node shorter.
EveryPassVisitsReturnsOrDiscards ==
    [][ LoopPass =>
          \/ (visited \subseteq visited' /\ visited' # visited)
          \/ (pc' = "returned" /\ ~result'.none)
          \/ /\ popped'[Len(popped')][1] \in visited
             /\ visited' = visited
             /\ FringeLen(fringe') = FringeLen(fringe) - 1
             /\ pc' = pc
      ]_vars

\* the last pass discarded a node of a visited state (uniformCostSearch), after
\* passes that visited states, and the fringe still holds a node
EveryPassVisitsReturnsOrDiscardsWitness ==
    /\ alg = "ucs" /\ pc = "loop"
    /\ Len(popped) >= 3
    /\ \E i \in 1 .. Len(popped) - 1 : popped[i][1] = popped[Len(popped)][1]
    /\ Len(tested) = Len(popped) - 1
    /\ FringeLen(fringe) >= 1

\* ------------------------------------------------ the nodes of the fringe
\* the nodes (state, path[, cost]) a fringe holds
FringeNodes(fr) ==
    IF "list" \in DOMAIN fr THEN { fr.list[i] : i \in DOMAIN fr.list }
    ELSE IF "queue" \in DOMAIN fr THEN { fr.queue[i] : i \in DOMAIN fr.queue }
    ELSE { fr.heap[i][3] : i \in DOMAIN fr.heap }

\* C16 (frontier nodes carry their path and cost): in every reachable state of a
\* search, the path of every node in the fringe, replayed from the start state
\* through getSuccessors, leads to the node's state and to no other; and in
\* uniformCostSearch and aStarSearch the node's accumulated cost is the sum of
\* the step costs along that path.
FringePathsAndCosts ==
    alg \in Algs =>
        \A node \in FringeNodes(fringe) :
            IF alg \in {"ucs", "astar"}
            THEN Replay(problem, node[2]) = { <<node[1], node[3]>> }
            ELSE { o[1] : o \in Replay(problem, node[2]) } = { node[1] }

\* the fringe of an aStarSearch run holds two nodes of one state, with paths of
\* different cost, one of them of two actions and of cost 2
FringePathsAndCostsWitness ==
    /\ alg = "astar" /\ pc = "loop"
    /\ \E m, n \in FringeNodes(fringe) :
          /\ m[1] = n[1] /\ m[3] < n[3]
          /\ Len(n[2]) = 2 /\ n[3] = 2
          /\ Replay(problem, n[2]) = { <<n[1], n[3]>> }

\* ------------------------------------------------ the order of the pops
\* minimum total cost over all paths from the start state to state s
MinCostTo(p, s) == MinOf({ w[2] : w \in { x \in AllWalks(p, getStartState(p)) : x[1] = s } })

\* pop number i is the first pop of its state
FirstPop(i) == \A j \in 1 .. i - 1 : popped[j][1] # popped[i][1]

\* C17 (first pop is optimal): in aStarSearch with a consistent heuristic and
\* non-negative step costs, whenever a state is popped for the first time (and so
\* added to the visited set), the accumulated cost g of the popped node is the
\* minimum total cost of any path from the start state to that state.
AStarFirstPopOptimal ==
    (alg = "astar" /\ Consistent(problem, heuristic)) =>
        \A i \in DOMAIN popped :
            FirstPop(i) => popped[i][3] = MinCostTo(problem, popped[i][1])

\* under a consistent heuristic other than the null heuristic, a state was first
\* popped by its cheaper path of two actions, and later popped again by its
\* path of one action, of higher cost
AStarFirstPopOptimalWitness ==
    /\ alg = "astar" /\ Consistent(problem, heuristic) /\ heuristic # nullHeuristic
    /\ \E i, j \in DOMAIN popped :
          /\ i < j /\ FirstPop(i) /\ popped[i][1] = popped[j][1]
          /\ Len(popped[i][2]) = 2 /\ Len(popped[j][2]) = 1
          /\ popped[i][3] < popped[j][3]
          /\ popped[i][3] = MinCostTo(problem, popped[i][1])

\* the priority popped node i was pushed with: its accumulated cost in
\* uniformCostSearch, its accumulated cost plus the heuristic of its state in
\* aStarSearch
PriorityOfPopped(i) ==
    IF alg = "astar" THEN popped[i][3] + heuristic[popped[i][1]] ELSE popped[i][3]

\* C19 (popped priorities never decrease): in uniformCostSearch with non-negative
\* step costs the accumulated costs of successively popped nodes never decrease
\* over the run, and in aStarSearch with a consistent heuristic the priorities
\* g + h of successively popped nodes never decrease.
PoppedPrioritiesMonotone ==
    (alg = "ucs" \/ (alg = "astar" /\ Consistent(problem, heuristic))) =>
        \A i, j \in DOMAIN popped : i < j => PriorityOfPopped(i) <= PriorityOfPopped(j)

\* aStarSearch under a consistent heuristic popped a node of lower accumulated
\* cost after a node of higher accumulated cost, and a node of higher priority
\* after that
PoppedPrioritiesMonotoneWitness ==
    /\ alg = "astar" /\ Consistent(problem, heuristic)
    /\ \E i \in DOMAIN popped :
          /\ i + 2 \in DOMAIN popped
          /\ popped[i][3] > popped[i + 1][3]
          /\ PriorityOfPopped(i + 1) < PriorityOfPopped(i + 2)

\* ------------------------------------------------------ cycle-free paths
\* the states in which the replay of the first k actions of `path` ends
StatesAfter(p, path, k) == { o[1] : o \in Replay(p, SubSeq(path, 1, k)) }

\* the replay of `path` from the start state passes through no state twice
CycleFree(p, path) ==
    \A k, l \in 0 .. Len(path) :
        k < l => StatesAfter(p, path, k) \cap StatesAfter(p, path, l) = {}

\* C20 (paths are cycle-free): in each of the four searches the path of every node
\* ever pushed to the fringe (the nodes the fringe holds and the nodes popped
\* from it), and hence every returned path, passes through no state twice when
\* it is replayed from the start state; the states a fringe node's path passes
\* through before its last are all in the visited set.
PathsCycleFree ==
    alg \in Algs =>
        /\ \A node \in FringeNodes(fringe) :
              /\ CycleFree(problem, node[2])
              /\ \A k \in 0 .. Len(node[2]) - 1 :
                     StatesAfter(problem, node[2], k) \subseteq visited
        /\ \A i \in DOMAIN popped : CycleFree(problem, popped[i][2])
        /\ Returned => CycleFree(problem, result.path)

\* a path of two actions was returned on a problem where the second state of that
\* path has a triple back to the start state
PathsCycleFreeWitness ==
    /\ alg \in Algs /\ Returned /\ ~result.none /\ Len(result.path) = 2
    /\ \E m \in StatesAfter(problem, result.path, 1) :
          \E i \in DOMAIN getSuccessors(problem, m) :
              getSuccessors(problem, m)[i][1] = getStartState(problem)
    /\ CycleFree(problem, result.path)

\* ------------------------------------- utils.py: a PriorityQueue on its own
\* A client that calls push and pop in any order, pop on the empty queue
\* included. The k-th push pushes the item k, so
\* that the item a pop returns tells which push it stems from; `held` lists the
\* <<priority, item>> pairs pushed and not yet popped, in the order of the pushes.
PQInit ==
    /\ alg = "none"
    /\ problem = [start |-> 1, goals |-> {}, succ |-> [s \in States |-> <<>>]]
    /\ heuristic = nullHeuristic
    /\ fringe = PriorityQueue_init
    /\ visited = {}
    /\ pc = "client"
    /\ result = None
    /\ popped = <<>>
    /\ tested = <<>>
    /\ expanded = <<>>
    /\ held = <<>>
    /\ ret = 0

\* the priority the held item was pushed with (-1 when it is not held)
PriorityOf(h, item) ==
    IF \E i \in DOMAIN h : h[i][2] = item
    THEN h[CHOOSE i \in DOMAIN h : h[i][2] = item][1]
    ELSE 0 - 1

PQ_push ==
    /\ pc = "client"
    /\ Len(held) + Len(popped) < MaxPushes
    /\ \E priority \in 0 .. MaxPrio :
          LET item == Len(held) + Len(popped) + 1
          IN  /\ fringe' = PriorityQueue_push(fringe, item, priority)
              /\ held' = Append(held, <<priority, item>>)
    /\ UNCHANGED <<alg, problem, heuristic, visited, pc, result, popped, tested, expanded, ret>>

PQ_pop ==
    /\ pc = "client"
    /\ IF PriorityQueue_popRaises(fringe) THEN Raise
       ELSE /\ ret' = PriorityQueue_popItem(fringe)
            /\ fringe' = PriorityQueue_popRest(fringe)
            /\ popped' = Append(popped, <<PriorityOf(held, ret'), ret'>>)
            /\ held' = SelectSeq(held, LAMBDA e : e[2] # ret')
            /\ UNCHANGED <<alg, problem, heuristic, visited, pc, result, tested, expanded>>

PQNext == PQ_push \/ PQ_pop

SpecPQ == PQInit /\ [][PQNext]_vars

\* the item pushed earliest among the held items of lowest priority
EarliestLowest(h) ==
    LET lowest == MinOf({ h[i][1] : i \in DOMAIN h })
        first  == MinOf({ i \in DOMAIN h : h[i][1] = lowest })
    IN  h[first][2]

\* C10 (PriorityQueue order): under any interleaving of pushes and pops, a pop on a
\* non-empty queue returns the held item of numerically lowest priority, among
\* several of that priority the one pushed earliest, and removes it from the queue.
PQPopsEarliestLowest ==
    [][ Len(popped') > Len(popped) =>
          /\ ret' = EarliestLowest(held)
          /\ { <<e[1], e[3]>> : e \in { fringe'.heap[i] : i \in DOMAIN fringe'.heap } }
                = { held[i] : i \in DOMAIN held } \ { h \in { held[i] : i \in DOMAIN held } :
                                                         h[2] = ret' }
          /\ Len(fringe'.heap) = Len(held) - 1
      ]_vars

\* the second pop returned the earlier of two items of equal lowest priority (the
\* later one is still held) while an item pushed before it, of higher priority,
\* is still held too
PQPopsEarliestLowestWitness ==
    /\ pc = "client" /\ Len(popped) >= 2
    /\ LET last == popped[Len(popped)]
       IN  /\ ret = last[2]
           /\ \E i \in DOMAIN held : held[i][1] = last[1] /\ held[i][2] > last[2]
           /\ \E i \in DOMAIN held : held[i][1] > last[1] /\ held[i][2] < last[2]

\* ------------------------------------------- utils.py: a Stack on its own
\* A client that calls push and pop in any order, pop on the empty stack
\* included. The k-th push pushes the item k; `held` lists the items pushed and
\* not yet popped, in the order of the pushes, `popped` the items pop returned.
StackInit ==
    /\ alg = "none"
    /\ problem = [start |-> 1, goals |-> {}, succ |-> [s \in States |-> <<>>]]
    /\ heuristic = nullHeuristic
    /\ fringe = Stack_init
    /\ visited = {}
    /\ pc = "stackClient"
    /\ result = None
    /\ popped = <<>>
    /\ tested = <<>>
    /\ expanded = <<>>
    /\ held = <<>>
    /\ ret = 0

Stack_pushCall ==
    /\ pc = "stackClient"
    /\ Len(held) + Len(popped) < MaxStackPushes
    /\ LET item == Len(held) + Len(popped) + 1
       IN  /\ fringe' = Stack_push(fringe, item)
           /\ held' = Append(held, item)
    /\ UNCHANGED <<alg, problem, heuristic, visited, pc, result, popped, tested, expanded, ret>>

Stack_popCall ==
    /\ pc = "stackClient"
    /\ IF Stack_popRaises(fringe) THEN Raise
       ELSE /\ ret' = Stack_popItem(fringe)
            /\ fringe' = Stack_popRest(fringe)
            /\ popped' = Append(popped, ret')
            /\ held' = SelectSeq(held, LAMBDA e : e # ret')
            /\ UNCHANGED <<alg, problem, heuristic, visited, pc, result, tested, expanded>>

StackNext == Stack_pushCall \/ Stack_popCall

SpecStack == StackInit /\ [][StackNext]_vars

\* C12 (Stack is last-in-first-out): under any interleaving of pushes and pops, a
\* pop on a non-empty stack returns the most recently pushed item among those not
\* yet popped and removes that item alone; and isEmpty answers true exactly when
\* every pushed item has been popped.
StackLifo ==
    /\ [](pc = "stackClient" => (Stack_isEmpty(fringe) <=> held = <<>>))
    /\ [][ Len(popped') > Len(popped) =>
             /\ ret' = held[Len(held)]
             /\ fringe'.list = SubSeq(held, 1, Len(held) - 1)
             /\ held' = SubSeq(held, 1, Len(held) - 1)
         ]_vars

\* a pop returned an item pushed after an earlier pop, while items pushed before
\* that earlier pop are still on the stack
StackLifoWitness ==
    /\ pc = "stackClient" /\ Len(popped) >= 2 /\ Len(held) >= 2
    /\ ret = popped[Len(popped)]
    /\ popped[Len(popped) - 1] < ret
    /\ \A i \in DOMAIN held : held[i] < popped[1]
    /\ ~Stack_isEmpty(fringe)

\* ------------------------------------------- utils.py: a Queue on its own
\* The same client on a Queue.
QueueInit ==
    /\ alg = "none"
    /\ problem = [start |-> 1, goals |-> {}, succ |-> [s \in States |-> <<>>]]
    /\ heuristic = nullHeuristic
    /\ fringe = Queue_init
    /\ visited = {}
    /\ pc = "queueClient"
    /\ result = None
    /\ popped = <<>>
    /\ tested = <<>>
    /\ expanded = <<>>
    /\ held = <<>>
    /\ ret = 0

Queue_pushCall ==
    /\ pc = "queueClient"
    /\ Len(held) + Len(popped) < MaxQueuePushes
    /\ LET item == Len(held) + Len(popped) + 1
       IN  /\ fringe' = Queue_push(fringe, item)
           /\ held' = Append(held, item)
    /\ UNCHANGED <<alg, problem, heuristic, visited, pc, result, popped, tested, expanded, ret>>

Queue_popCall ==
    /\ pc = "queueClient"
    /\ IF Queue_popRaises(fringe) THEN Raise
       ELSE /\ ret' = Queue_popItem(fringe)
            /\ fringe' = Queue_popRest(fringe)
            /\ popped' = Append(popped, ret')
            /\ held' = SelectSeq(held, LAMBDA e : e # ret')
            /\ UNCHANGED <<alg, problem, heuristic, visited, pc, result, tested, expanded>>

QueueNext == Queue_pushCall \/ Queue_popCall

SpecQueue == QueueInit /\ [][QueueNext]_vars

\* C13 (Queue is first-in-first-out): under any interleaving of pushes and pops, a
\* pop on a non-empty queue returns the earliest pushed item among those not yet
\* popped and removes that item alone; and isEmpty answers true exactly when
\* every pushed item has been popped.
QueueFifo ==
    /\ [](pc = "queueClient" => (Queue_isEmpty(fringe) <=> held = <<>>))
    /\ [][ Len(popped') > Len(popped) =>
             /\ ret' = held[1]
             /\ fringe'.queue = Tail(held)
             /\ held' = Tail(held)
         ]_vars

\* the second pop returned the earliest held item; two items pushed after it are
\* still in the queue
QueueFifoWitness ==
    /\ pc = "queueClient" /\ Len(popped) >= 2 /\ Len(held) >= 2
    /\ ret = popped[Len(popped)]
    /\ \A i \in DOMAIN held : held[i] > ret
    /\ \E i \in DOMAIN held : held[i] > ret + 1
    /\ ~Queue_isEmpty(fringe)

\* --------------------------------- pop on an empty container, in all callers
\* The runs of the four search functions together with the runs of a client of
\* each container.
PopInit == Init \/ StackInit \/ QueueInit \/ PQInit
PopNext == Next \/ StackNext \/ QueueNext \/ PQNext
SpecPop == PopInit /\ [][PopNext]_vars

ClientRunning == pc \in {"stackClient", "queueClient", "client"}

\* C14 (pop on an empty container): a call of pop on a Stack, Queue or
\* PriorityQueue that holds no item raises: it returns nothing, no sentinel
\* either, and the container is left as it was, empty; a pop raises in no other
\* case; and no run of the four search functions ever raises, their pops follow
\* an isEmpty that answered false.
PopOnEmptyRaises ==
    /\ [](alg \in Algs => pc # "raised")
    /\ [][ /\ (ClientRunning /\ held = <<>> /\ held' = held) =>
                (pc' = "raised" /\ fringe' = fringe /\ popped' = popped /\ ret' = ret)
           /\ pc' = "raised" => (held = <<>> /\ fringe' = fringe)
         ]_vars

\* pop has raised on a PriorityQueue emptied by two pops
PopOnEmptyRaisesWitness ==
    /\ pc = "raised" /\ held = <<>> /\ Len(popped) >= 2
    /\ "count" \in DOMAIN fringe
    /\ PriorityQueue_isEmpty(fringe) /\ fringe.count >= 2

\* --------------------------- utils.py: a PriorityQueue with update, on its own
\* A client that calls push, update and pop in any order, with items that may
\* repeat. Here pc records the call that returned last and its arguments, and
\* `held` lists the entries (priority, count, item) as they were pushed, in the
\* order of the pushes, without those popped since.
Items == 1 .. MaxItem

After(call, item, priority) == [call |-> call, item |-> item, priority |-> priority]

UpdInit ==
    /\ alg = "none"
    /\ problem = [start |-> 1, goals |-> {}, succ |-> [s \in States |-> <<>>]]
    /\ heuristic = nullHeuristic
    /\ fringe = PriorityQueue_init
    /\ visited = {}
    /\ pc = After("init", 0, 0)
    /\ result = None
    /\ popped = <<>>
    /\ tested = <<>>
    /\ expanded = <<>>
    /\ held = <<>>
    /\ ret = 0

Upd_push ==
    /\ pc.call # "pop raised"
    /\ fringe.count < MaxEntries
    /\ \E item \in Items, priority \in 0 .. MaxPrio :
          /\ fringe' = PriorityQueue_push(fringe, item, priority)
          /\ held' = Append(held, <<priority, fringe.count, item>>)
          /\ pc' = After("push", item, priority)
    /\ UNCHANGED <<alg, problem, heuristic, visited, result, popped, tested, expanded, ret>>

Upd_update ==
    /\ pc.call # "pop raised"
    /\ \E item \in Items, priority \in 0 .. MaxPrio :
          /\ (\E k \in DOMAIN fringe.heap : fringe.heap[k][3] = item)
                \/ fringe.count < MaxEntries
          /\ fringe' = PriorityQueue_update(fringe, item, priority)
          /\ held' = IF \E k \in DOMAIN fringe.heap : fringe.heap[k][3] = item
                     THEN held
                     ELSE Append(held, <<priority, fringe.count, item>>)
          /\ pc' = After("update", item, priority)
    /\ UNCHANGED <<alg, problem, heuristic, visited, result, popped, tested, expanded, ret>>

Upd_pop ==
    /\ pc.call # "pop raised"
    /\ IF PriorityQueue_popRaises(fringe)
       THEN /\ pc' = After("pop raised", 0, 0)
            /\ UNCHANGED <<fringe, held, popped, ret>>
       ELSE /\ ret' = PriorityQueue_popItem(fringe)
            /\ fringe' = PriorityQueue_popRest(fringe)
            /\ popped' = Append(popped, ret')
            /\ held' = SelectSeq(held, LAMBDA e : e[2] # heapq_heappopItem(fringe.heap)[2])
            /\ pc' = After("pop", 0, 0)
    /\ UNCHANGED <<alg, problem, heuristic, visited, result, tested, expanded>>

UpdNext == Upd_push \/ Upd_update \/ Upd_pop

SpecUpd == UpdInit /\ [][UpdNext]_vars

\* the entries a queue holds
Entries(q) == { q.heap[k] : k \in DOMAIN q.heap }

\* the entry pop returns the item of: lowest priority, lowest count among those
LowestEntry(q) == CHOOSE e \in Entries(q) : \A x \in Entries(q) : x = e \/ EntryLess(e, x)

\* the next pop returns the item of the lowest entry
PopReturnsLowest(q) ==
    ~PriorityQueue_isEmpty(q) => heapq_heappopItem(q.heap) = LowestEntry(q)

\* update(item, p) found no entry of `item` in q and pushed one, giving r
PushedAsNew(q, r, item, p) ==
    /\ Entries(r) = Entries(q) \cup { <<p, q.count, item>> }
    /\ Len(r.heap) = Len(q.heap) + 1
    /\ r.count = q.count + 1

\* entry e of q has priority p in r, and nothing else differs between q and r
Lowered(q, r, e, p) ==
    /\ Entries(r) = (Entries(q) \ {e}) \cup { <<p, e[2], e[3]>> }
    /\ Len(r.heap) = Len(q.heap)
    /\ r.count = q.count

\* C18 as stated (update lowers any matching entry): after update(item, p), every
\* entry whose payload equals item and whose priority was greater than p has
\* priority p, with its sequence number and the number of held entries unchanged;
\* if the matching entries have priorities <= p the queue is unchanged; if no
\* entry matches, the item is pushed as a new entry with priority p; and pop
\* still returns the lowest-priority entry.
UpdateLowersAnyMatch ==
    [][ pc'.call = "update" =>
          LET item    == pc'.item
              p       == pc'.priority
              matches == { e \in Entries(fringe) : e[3] = item }
          IN  /\ \A e \in matches :
                    e[1] > p => /\ <<p, e[2], item>> \in Entries(fringe')
                                /\ e \notin Entries(fringe')
                                /\ Len(fringe'.heap) = Len(fringe.heap)
                                /\ fringe'.count = fringe.count
              /\ (matches # {} /\ \A e \in matches : e[1] <= p) => fringe' = fringe
              /\ matches = {} => PushedAsNew(fringe, fringe', item, p)
              /\ PopReturnsLowest(fringe')
      ]_vars

\* the first entry of the list of q whose payload equals item
FirstMatch(q, item) ==
    q.heap[MinOf({ k \in DOMAIN q.heap : q.heap[k][3] = item })]

\* C18 (amended: update lowers the first matching entry): update(item, p) acts on
\* the first entry, in the order of the heap list, whose payload equals item: if
\* its priority is greater than p it becomes p, with its sequence number, the
\* number of held entries and every other entry unchanged; if its priority is
\* already <= p the queue is left unchanged, whatever the other entries of that
\* payload; if no entry matches, the item is pushed as a new entry with priority
\* p. In every state, after an update too, pop returns the lowest-priority
\* entry.
UpdateLowersFirstMatch ==
    /\ [](pc.call # "pop raised" => PopReturnsLowest(fringe))
    /\ [][ pc'.call = "update" =>
             LET item == pc'.item
                 p    == pc'.priority
             IN  IF \E e \in Entries(fringe) : e[3] = item
                 THEN IF FirstMatch(fringe, item)[1] > p
                      THEN Lowered(fringe, fringe', FirstMatch(fringe, item), p)
                      ELSE fringe' = fringe
                 ELSE PushedAsNew(fringe, fringe', item, p)
         ]_vars

\* update(item, p) has returned; the entry at the root has payload item and
\* priority p, was pushed with a higher priority and was not the first entry
\* pushed; a second entry of the same payload holds a priority greater than p
UpdateLowersFirstMatchWitness ==
    /\ pc.call = "update" /\ Len(fringe.heap) >= 3
    /\ LET root == fringe.heap[1]
       IN  /\ root[3] = pc.item /\ root[1] = pc.priority /\ root[2] > 0
           /\ \E i \in DOMAIN held : held[i][2] = root[2] /\ held[i][1] > root[1]
           /\ \E e \in Entries(fringe) : e[3] = pc.item /\ e[2] # root[2] /\ e[1] > pc.priority

====
